---- MODULE Spec2Model ----
(***************************************************************************)
(* The game manager of the ASCII rhythm game (src/src/GameManager.cpp):    *)
(* the main loop over game steps, the frame scheduler PlayGameStep, and    *)
(* the per-frame gameplay update (activate, judge, evict, score, clear).   *)
(*                                                                         *)
(* Time is counted in ticks of 0.05 s.  The timer is read relative to the  *)
(* entry of the current step: the code only ever subtracts two readings    *)
(* taken within one call of PlayGameStep.                                  *)
(***************************************************************************)
EXTENDS Integers, Sequences, FiniteSets, TLC

(* ------------------------------ bounds -------------------------------- *)
\* Largest timer reading, in ticks, up to which the sleeping loop is followed.
MaxClock == 10
\* Longest time, in ticks, one Sleep(1) may take (oversleeping included).
MaxSleep == 2

(* ------------------------- program constants -------------------------- *)
GAME_LANE_COUNT == 2
EARLY_PRESS_TOLERANCE_SECONDS == 1
LATE_PRESS_TOLERANCE_SECONDS == 2
EARLY_RELEASE_TOLERANCE_SECONDS == 2
MAX_MISS_TIME_DISTANCE_SECONDS == 2
BIG_COMBO_LOSS_THRESHOLD == 2
NOTE_ERROR_DISPLAY_DURATION == 1
\* 1 / frameRate, in ticks.
delayBetweenFrames == 1
\* Sleep(1000) of SelectLevelUpdate, in ticks.
CONFIRM_SLEEP == 2

Lanes == 0 .. (GAME_LANE_COUNT - 1)
LANE_KEYS == [l \in Lanes |-> IF l = 0 THEN "LANE_0" ELSE "LANE_1"]
LaneKeySet == {LANE_KEYS[l] : l \in Lanes}
MenuKeys == {"MENU_PREVIOUS", "MENU_NEXT", "MENU_CONFIRM", "APPLICATION_EXIT"}
Keys == LaneKeySet \cup MenuKeys

QuitSteps == {"QUIT_SUCCESS", "QUIT_ERROR"}
PlaySteps == {"LEVEL_SELECT", "LEVEL_PLAY", "LEVEL_RESULTS"}
gameStep_t == PlaySteps \cup QuitSteps

Note(id, s, e) == [id |-> id, startSeconds |-> s, endSeconds |-> e, state |-> "ACTIVE"]

\* The level files of the level list: per lane the notes ordered by start
\* time, the song length and the lane length (scroll lead time).
LevelFiles ==
  << [ lengthSeconds |-> 7, laneLengthSeconds |-> 3,
       notes |-> [l \in Lanes |-> IF l = 0 THEN <<Note("a", 2, 3), Note("c", 6, 7)>>
                                  ELSE <<Note("b", 2, 3), Note("e", 6, 7)>>] ],
     [ lengthSeconds |-> 6, laneLengthSeconds |-> 4,
       notes |-> [l \in Lanes |-> IF l = 0 THEN <<Note("d", 2, 6), Note("g", 5, 6)>>
                                  ELSE <<Note("h", 6, 6)>>] ] >>
levelCount == Len(LevelFiles)
NoteIds == {"a", "b", "c", "d", "e", "g", "h"}
NoEdges == [pressed |-> {}, released |-> {}]

VARIABLES
  nextStep,            \* idGameManager::nextStep
  pc,                  \* position in StartMainLoop / PlayGameStep / PlayLevelUpdate
  curStep,             \* the step whose init/update functions are bound
  firstUpdate,         \* TRUE while the unconditional first update is running
  shouldStop,          \* PlayGameStep's local
  timeSinceStepStart,
  clock,               \* timer.getElapsedSeconds(), relative to step entry
  startTime, previousUpdateTime, currentLoopTime,
  input,               \* the edges idInputManager holds: [pressed, released]
  selectedLevelIndex,
  currentLevel,        \* [pending, active, played, lengthSeconds, laneLengthSeconds]
  score,               \* idScoreManager counters
  latestLaneMistakes,
  laneIndex,           \* loop variable i of the judgment loop
  playedIndex,         \* loop variable i of the scoring loop
  isBigComboLoss,
  outOfRangeWrite,     \* TRUE once latestLaneMistakes was written outside its bounds
  exitCode,
  \* history variables, not program state
  registrations,       \* per note: RegisterHit + RegisterMiss calls it caused this session
  evictedCount,        \* notes moved into the played batch this session
  initCalls, updateCalls,   \* calls of the step's init / update in this PlayGameStep
  initFailed,          \* the init function of this PlayGameStep returned false
  comboBreakPlays,     \* sound.Play(COMBO_BREAK) calls of the current or latest frame
  lastUpdateClock      \* timer value at the latest update invocation of this step

vars == << nextStep, pc, curStep, firstUpdate, shouldStop, timeSinceStepStart, clock,
           startTime, previousUpdateTime, currentLoopTime, input, selectedLevelIndex,
           currentLevel, score, latestLaneMistakes, laneIndex, playedIndex,
           isBigComboLoss, outOfRangeWrite, exitCode, registrations, evictedCount, initCalls,
           updateCalls, initFailed, lastUpdateClock, comboBreakPlays >>

schedVars == << clock, startTime, previousUpdateTime, currentLoopTime >>
playVars == << currentLevel, score, latestLaneMistakes, laneIndex, playedIndex,
               isBigComboLoss, outOfRangeWrite, registrations, evictedCount,
               comboBreakPlays >>

ZeroScore == [score |-> 0, comboCount |-> 0, maxComboCount |-> 0,
              missedNotesCount |-> 0, playedNotesCount |-> 0, isFullCombo |-> TRUE]
EmptyLevel == [pending |-> [l \in Lanes |-> << >>], active |-> [l \in Lanes |-> << >>],
               played |-> << >>, lengthSeconds |-> 0, laneLengthSeconds |-> 0]

(* --------------------------- construction ----------------------------- *)
\* idGameManager::idGameManager: LoadLevelsData may fail.
Init ==
  /\ nextStep \in {"LEVEL_SELECT", "QUIT_ERROR"}
  /\ pc = "main"
  /\ curStep = "NONE"
  /\ firstUpdate = FALSE
  /\ shouldStop = FALSE
  /\ timeSinceStepStart = 0
  /\ clock = 0 /\ startTime = 0 /\ previousUpdateTime = 0 /\ currentLoopTime = 0
  /\ input = NoEdges
  /\ selectedLevelIndex = 0
  /\ currentLevel = EmptyLevel
  /\ score = ZeroScore
  \* not initialised by the constructor; written by PlayLevelInit before any read
  /\ latestLaneMistakes = [l \in Lanes |-> 0]
  /\ laneIndex = 0 /\ playedIndex = 0 /\ isBigComboLoss = FALSE
  /\ outOfRangeWrite = FALSE
  /\ exitCode = "NONE"
  /\ registrations = [n \in NoteIds |-> 0]
  /\ evictedCount = 0
  /\ initCalls = 0 /\ updateCalls = 0 /\ lastUpdateClock = 0
  /\ initFailed = FALSE
  /\ comboBreakPlays = 0


(* ---------------------------- StartMainLoop --------------------------- *)
\* pc value at which the update function bound for a step starts.
UpdateEntry(step) == IF step = "LEVEL_PLAY" THEN "activate" ELSE "update"

\* while-loop test true: bind the step's functions and enter PlayGameStep.
Dispatch ==
  /\ pc = "main"
  /\ nextStep \notin QuitSteps
  /\ curStep' = nextStep
  /\ pc' = "init"
  /\ clock' = 0 /\ startTime' = 0 /\ previousUpdateTime' = 0 /\ currentLoopTime' = 0
  /\ initCalls' = 0 /\ updateCalls' = 0 /\ lastUpdateClock' = 0
  /\ initFailed' = FALSE
  /\ shouldStop' = FALSE
  /\ registrations' = [n \in NoteIds |-> 0]
  /\ evictedCount' = 0
  /\ UNCHANGED << nextStep, firstUpdate, timeSinceStepStart, input, selectedLevelIndex,
                  exitCode, currentLevel, score, latestLaneMistakes, laneIndex,
                  playedIndex, isBigComboLoss, outOfRangeWrite, comboBreakPlays >>

ExitCodeForAlwaysSuccess(step) == "EXIT_SUCCESS"
ExitCodeFor(step) == IF step = "QUIT_SUCCESS" THEN "EXIT_SUCCESS" ELSE "EXIT_FAILURE"

\* while-loop test false: StartMainLoop returns.
Return ==
  /\ pc = "main"
  /\ nextStep \in QuitSteps
  /\ pc' = "done"
  /\ exitCode' = ExitCodeFor(nextStep)
  /\ UNCHANGED << nextStep, curStep, firstUpdate, shouldStop, timeSinceStepStart,
                  input, selectedLevelIndex, initCalls, updateCalls,
                  initFailed, lastUpdateClock >>
  /\ UNCHANGED schedVars
  /\ UNCHANGED playVars

(* ------------------------- PlayGameStep: init ------------------------- *)
StepAfterInitFailureKept(step) == step
\* PlayGameStep, init function returned false.
StepAfterInitFailure(step) == "QUIT_ERROR"

TimeAtFirstUpdateKept(before) == before
\* timeSinceStepStart as set for the first call of the update function.
TimeAtFirstUpdate(before) == 0

\* PlayGameStep after the call of the init function: ok is its result and
\* step the value it left in nextStep.
AfterInit(ok, step) ==
  /\ initCalls' = initCalls + 1
  /\ initFailed' = ~ok
  /\ IF ok
       THEN /\ nextStep' = step
            /\ timeSinceStepStart' = TimeAtFirstUpdate(timeSinceStepStart)
            /\ firstUpdate' = TRUE
            /\ pc' = UpdateEntry(curStep)
       ELSE /\ nextStep' = StepAfterInitFailure(step)
            /\ pc' = "main"
            /\ UNCHANGED << timeSinceStepStart, firstUpdate >>
  /\ UNCHANGED << curStep, shouldStop, input, selectedLevelIndex, exitCode,
                  updateCalls, lastUpdateClock >>
  /\ UNCHANGED schedVars

SelectLevelInit ==
  /\ pc = "init" /\ curStep = "LEVEL_SELECT"
  /\ \E loadNavigate, loadConfirm \in BOOLEAN :
        IF loadNavigate /\ loadConfirm
          THEN AfterInit(TRUE, nextStep)
          ELSE AfterInit(FALSE, "QUIT_ERROR")
  /\ UNCHANGED playVars

\* idLevel::LoadFile: the level as loaded, nothing activated or played yet.
LoadFile(index) ==
  [pending |-> LevelFiles[index + 1].notes,
   active |-> [l \in Lanes |-> << >>],
   played |-> << >>,
   lengthSeconds |-> LevelFiles[index + 1].lengthSeconds,
   laneLengthSeconds |-> LevelFiles[index + 1].laneLengthSeconds]

PlayLevelInit ==
  /\ pc = "init" /\ curStep = "LEVEL_PLAY"
  /\ \E loadCombo, loadFile, loadSong, playSong \in BOOLEAN :
        /\ IF loadCombo /\ loadFile
             THEN currentLevel' = LoadFile(selectedLevelIndex)
             ELSE UNCHANGED currentLevel
        /\ IF loadCombo /\ loadFile /\ loadSong /\ playSong
             THEN /\ score' = ZeroScore
                  /\ latestLaneMistakes' =
                       [l \in Lanes |-> (-2) * NOTE_ERROR_DISPLAY_DURATION]
                  /\ AfterInit(TRUE, nextStep)
             ELSE /\ UNCHANGED << score, latestLaneMistakes >>
                  /\ AfterInit(FALSE, "QUIT_ERROR")
  /\ UNCHANGED << registrations, evictedCount >>
  /\ UNCHANGED << laneIndex, playedIndex, isBigComboLoss, outOfRangeWrite,
                  comboBreakPlays >>

\* The stored high scores are the persistence collaborator's: whether the
\* session's score beats the stored one (idScoreManager::IsHighScore) is an
\* input of the step, as is the success of every sound and file call.
LevelResultsInit ==
  /\ pc = "init" /\ curStep = "LEVEL_RESULTS"
  /\ \E unload, loadBack, isHighScore, save \in BOOLEAN :
        IF ~(unload /\ loadBack)
          THEN AfterInit(FALSE, "QUIT_ERROR")
          ELSE IF isHighScore
                 THEN AfterInit(save, nextStep)
                 ELSE AfterInit(TRUE, nextStep)
  /\ UNCHANGED playVars

(* --------------------- PlayGameStep: update loop ---------------------- *)
FrameDueInclusive(now, prev) == now >= prev + delayBetweenFrames
\* The test that lets the loop invoke the update function.
FrameDue(now, prev) == now > prev + delayBetweenFrames

\* Bookkeeping at the moment the update function is invoked.
InvokeUpdate ==
  /\ updateCalls' = updateCalls + 1
  /\ lastUpdateClock' = clock

EdgesAfterUpdateKept(first, in) == in
\* The key edges after a call of the update function: the loop resets them
\* after the call it makes, nothing resets them after the first call.
EdgesAfterUpdate(first, in) == IF first THEN in ELSE NoEdges

\* PlayGameStep right after a call of the update function that returned stop
\* and took `slept` ticks: after the first call the start time is read, after
\* a call from the loop the key edges are reset.
AfterUpdate(stop, slept) ==
  /\ shouldStop' = stop
  /\ clock' = clock + slept
  /\ firstUpdate' = FALSE
  /\ input' = EdgesAfterUpdate(firstUpdate, input)
  /\ IF firstUpdate
       THEN /\ startTime' = clock + slept
            /\ previousUpdateTime' = clock + slept
            /\ pc' = "loop"
       ELSE /\ previousUpdateTime' = currentLoopTime
            /\ startTime' = startTime
            /\ pc' = "sleep"
  /\ UNCHANGED << currentLoopTime, curStep, timeSinceStepStart, exitCode, initCalls,
                  initFailed >>

\* Loop test false: PlayGameStep returns to StartMainLoop.
LoopExit ==
  /\ pc = "loop"
  /\ shouldStop
  /\ pc' = "main"
  /\ UNCHANGED << nextStep, curStep, firstUpdate, shouldStop, timeSinceStepStart,
                  input, selectedLevelIndex, exitCode, initCalls,
                  updateCalls, initFailed, lastUpdateClock >>
  /\ UNCHANGED schedVars
  /\ UNCHANGED playVars

\* The keys whose edges the update function of a step reads.
KeysRead(step) ==
  CASE step = "LEVEL_PLAY" -> LaneKeySet
    [] step = "LEVEL_SELECT" -> MenuKeys
    [] OTHER -> {"MENU_CONFIRM"}

\* What one poll of the keyboard observes: nothing, or one edge of one key.
\* Edges of keys the running step never reads are reset unread at the end of
\* the frame and are left out; so are release edges of the menu keys.
KeyEvents(step) ==
  {<<"NONE", "NONE">>} \cup (KeysRead(step) \X {"pressed"}) \cup
  ((KeysRead(step) \cap LaneKeySet) \X {"released"})

\* idInputManager::UpdateKeyStates: edges accumulate until they are reset.
UpdateKeyStates(in, ev) ==
  [pressed |-> IF ev[2] = "pressed" THEN in.pressed \cup {ev[1]} ELSE in.pressed,
   released |-> IF ev[2] = "released" THEN in.released \cup {ev[1]} ELSE in.released]

WasKeyPressed(k) == k \in input.pressed
WasKeyReleased(k) == k \in input.released

\* Loop body up to the frame test: poll the keys, read the timer.
Poll ==
  /\ pc = "loop"
  /\ ~shouldStop
  /\ \E ev \in KeyEvents(curStep) : input' = UpdateKeyStates(input, ev)
  /\ currentLoopTime' = clock
  /\ IF FrameDue(clock, previousUpdateTime)
       THEN /\ timeSinceStepStart' = clock - startTime
            /\ pc' = UpdateEntry(curStep)
       ELSE /\ timeSinceStepStart' = timeSinceStepStart
            /\ pc' = "sleep"
  /\ UNCHANGED << nextStep, curStep, firstUpdate, shouldStop, clock, startTime,
                  previousUpdateTime, selectedLevelIndex, exitCode,
                  initCalls, updateCalls, initFailed, lastUpdateClock >>
  /\ UNCHANGED playVars

\* Sleep(1) at the end of the loop body.
Sleep ==
  /\ pc = "sleep"
  /\ \E d \in 1 .. MaxSleep :
        /\ shouldStop \/ clock + d <= MaxClock
        /\ clock' = clock + d
  /\ pc' = "loop"
  /\ UNCHANGED << nextStep, curStep, firstUpdate, shouldStop, timeSinceStepStart,
                  startTime, previousUpdateTime, currentLoopTime, input,
                  selectedLevelIndex, exitCode, initCalls, updateCalls,
                  initFailed, lastUpdateClock >>
  /\ UNCHANGED playVars

(* ------------------- level select and results steps ------------------- *)
SelectLevelUpdate ==
  /\ pc = "update" /\ curStep = "LEVEL_SELECT"
  /\ InvokeUpdate
  /\ IF WasKeyPressed("APPLICATION_EXIT")
       THEN /\ nextStep' = "QUIT_SUCCESS"
            /\ UNCHANGED selectedLevelIndex
            /\ AfterUpdate(TRUE, 0)
       ELSE LET afterNext == IF WasKeyPressed("MENU_NEXT")
                               THEN (selectedLevelIndex + 1) % levelCount
                               ELSE selectedLevelIndex
                afterPrevious == IF WasKeyPressed("MENU_PREVIOUS")
                                   THEN (afterNext + levelCount - 1) % levelCount
                                   ELSE afterNext
                selectionChanged == WasKeyPressed("MENU_NEXT") \/ WasKeyPressed("MENU_PREVIOUS")
                selectionConfirmed == WasKeyPressed("MENU_CONFIRM")
            IN  /\ selectedLevelIndex' = afterPrevious
                /\ \E playNavigate, playConfirm \in BOOLEAN :
                      IF (selectionChanged /\ ~playNavigate) \/ (selectionConfirmed /\ ~playConfirm)
                        THEN /\ nextStep' = "QUIT_ERROR"
                             /\ AfterUpdate(TRUE, 0)
                        ELSE IF selectionConfirmed
                               THEN /\ nextStep' = "LEVEL_PLAY"
                                    /\ AfterUpdate(TRUE, CONFIRM_SLEEP)
                               ELSE /\ nextStep' = nextStep
                                    /\ AfterUpdate(FALSE, 0)
  /\ UNCHANGED playVars

\* Return value of LevelResultsUpdate when the back sound fails to play.
MenuBackFailureReturn == FALSE

LevelResultsUpdate ==
  /\ pc = "update" /\ curStep = "LEVEL_RESULTS"
  /\ InvokeUpdate
  /\ IF WasKeyPressed("MENU_CONFIRM")
       THEN \E playBack \in BOOLEAN :
              IF playBack
                THEN /\ nextStep' = "LEVEL_SELECT"
                     /\ AfterUpdate(TRUE, 0)
                ELSE /\ nextStep' = "QUIT_ERROR"
                     /\ AfterUpdate(MenuBackFailureReturn, 0)
       ELSE /\ nextStep' = nextStep
            /\ AfterUpdate(FALSE, 0)
  /\ UNCHANGED selectedLevelIndex
  /\ UNCHANGED playVars


(* ------------------------------ idLevel ------------------------------- *)
\* A note is past its resolvable window.
PastWindow(n, t) == t > n.endSeconds - EARLY_RELEASE_TOLERANCE_SECONDS

\* Number of leading notes of a pending queue whose scroll-in time (start
\* minus lane length) has been reached.
RECURSIVE DueCount(_, _, _)
DueCount(q, t, laneLength) ==
  IF q # << >> /\ t >= Head(q).startSeconds - laneLength
    THEN 1 + DueCount(Tail(q), t, laneLength)
    ELSE 0

\* idLevel::ActivateNotesForTime: per lane, the pending notes that are due
\* move, in order, to the back of the active queue.
ActivateNotesForTime(level, t) ==
  LET k(l) == DueCount(level.pending[l], t, level.laneLengthSeconds)
  IN  [level EXCEPT
         !.pending = [l \in Lanes |-> SubSeq(level.pending[l], k(l) + 1, Len(level.pending[l]))],
         !.active = [l \in Lanes |-> level.active[l] \o SubSeq(level.pending[l], 1, k(l))]]

\* Number of leading notes of an active queue that are judged and past
\* their window.
RECURSIVE DoneCount(_, _)
DoneCount(q, t) ==
  IF q # << >> /\ Head(q).state # "ACTIVE" /\ PastWindow(Head(q), t)
    THEN 1 + DoneCount(Tail(q), t)
    ELSE 0

RECURSIVE Concat(_, _)
Concat(f, l) == IF l >= GAME_LANE_COUNT THEN << >> ELSE f[l] \o Concat(f, l + 1)

\* idLevel::RemoveNotesForTime: per lane, the leading notes that are judged
\* and past their window leave the active queue for the played batch.
RemoveNotesForTime(level, t, lateTolerance) ==
  LET k(l) == DoneCount(level.active[l], t)
  IN  [level EXCEPT
         !.active = [l \in Lanes |-> SubSeq(level.active[l], k(l) + 1, Len(level.active[l]))],
         !.played = level.played \o Concat([l \in Lanes |-> SubSeq(level.active[l], 1, k(l))], 0)]

\* idLevel::ClearPlayedNotes
ClearPlayedNotes(level) == [level EXCEPT !.played = << >>]

(* --------------------------- idScoreManager --------------------------- *)
Max(a, b) == IF a >= b THEN a ELSE b

RegisterHit(sc, value) ==
  [sc EXCEPT !.score = sc.score + value,
             !.comboCount = sc.comboCount + 1,
             !.maxComboCount = Max(sc.maxComboCount, sc.comboCount + 1),
             !.playedNotesCount = sc.playedNotesCount + 1]

RegisterMiss(sc) ==
  [sc EXCEPT !.missedNotesCount = sc.missedNotesCount + 1,
             !.playedNotesCount = sc.playedNotesCount + 1,
             !.comboCount = 0,
             !.isFullCombo = FALSE]

(* -------------------------- UpdateGameData ---------------------------- *)
\* The do-while scan for the bottom note, as a 1-based index into the lane's
\* active queue: stop at the first note that is ACTIVE or not past its
\* window, or at the last note.
RECURSIVE BottomNoteScan(_, _, _)
BottomNoteScan(laneNotes, t, k) ==
  IF /\ k < Len(laneNotes)
     /\ laneNotes[k].state # "ACTIVE"
     /\ PastWindow(laneNotes[k], t)
    THEN BottomNoteScan(laneNotes, t, k + 1)
    ELSE k

BottomNoteIndexSkipsJudged(laneNotes, t) ==
  IF \E k \in 1 .. Len(laneNotes) : laneNotes[k].state = "ACTIVE"
    THEN CHOOSE k \in 1 .. Len(laneNotes) :
           /\ laneNotes[k].state = "ACTIVE"
           /\ \A j \in 1 .. (k - 1) : laneNotes[j].state # "ACTIVE"
    ELSE Len(laneNotes)
BottomNoteIndex(laneNotes, t) == BottomNoteScan(laneNotes, t, 1)

JudgeActiveEarlyAlwaysMissed(note, t, wasPressed) ==
  IF t > note.startSeconds + LATE_PRESS_TOLERANCE_SECONDS
    THEN [state |-> "MISSED", miss |-> TRUE]
    ELSE IF wasPressed
           THEN IF t >= note.startSeconds - EARLY_PRESS_TOLERANCE_SECONDS
                  THEN [state |-> "PRESSED", miss |-> FALSE]
                  ELSE [state |-> "MISSED", miss |-> TRUE]
           ELSE [state |-> "ACTIVE", miss |-> FALSE]
JudgeActiveNearMissStrict(note, t, wasPressed) ==
  IF t > note.startSeconds + LATE_PRESS_TOLERANCE_SECONDS
    THEN [state |-> "MISSED", miss |-> TRUE]
    ELSE IF wasPressed
           THEN IF t >= note.startSeconds - EARLY_PRESS_TOLERANCE_SECONDS
                  THEN [state |-> "PRESSED", miss |-> FALSE]
                  ELSE IF t + MAX_MISS_TIME_DISTANCE_SECONDS
                            > note.startSeconds - EARLY_PRESS_TOLERANCE_SECONDS
                         THEN [state |-> "MISSED", miss |-> TRUE]
                         ELSE [state |-> "ACTIVE", miss |-> FALSE]
           ELSE [state |-> "ACTIVE", miss |-> FALSE]
JudgeActiveLateInclusive(note, t, wasPressed) ==
  IF t >= note.startSeconds + LATE_PRESS_TOLERANCE_SECONDS
    THEN [state |-> "MISSED", miss |-> TRUE]
    ELSE IF wasPressed
           THEN IF t >= note.startSeconds - EARLY_PRESS_TOLERANCE_SECONDS
                  THEN [state |-> "PRESSED", miss |-> FALSE]
                  ELSE IF t + MAX_MISS_TIME_DISTANCE_SECONDS
                            >= note.startSeconds - EARLY_PRESS_TOLERANCE_SECONDS
                         THEN [state |-> "MISSED", miss |-> TRUE]
                         ELSE [state |-> "ACTIVE", miss |-> FALSE]
           ELSE [state |-> "ACTIVE", miss |-> FALSE]
\* "Update note state", bottom note ACTIVE: its new state and whether a miss
\* is registered for it.
JudgeActive(note, t, wasPressed) ==
  IF t > note.startSeconds + LATE_PRESS_TOLERANCE_SECONDS
    THEN [state |-> "MISSED", miss |-> TRUE]
    ELSE IF wasPressed
           THEN IF t >= note.startSeconds - EARLY_PRESS_TOLERANCE_SECONDS
                  THEN [state |-> "PRESSED", miss |-> FALSE]
                  ELSE IF t + MAX_MISS_TIME_DISTANCE_SECONDS
                            >= note.startSeconds - EARLY_PRESS_TOLERANCE_SECONDS
                         THEN [state |-> "MISSED", miss |-> TRUE]
                         ELSE [state |-> "ACTIVE", miss |-> FALSE]
           ELSE [state |-> "ACTIVE", miss |-> FALSE]

JudgePressedStrict(note, t, wasReleased) ==
  IF wasReleased /\ t < note.endSeconds - EARLY_RELEASE_TOLERANCE_SECONDS
    THEN [state |-> "MISSED", miss |-> TRUE]
    ELSE [state |-> "PRESSED", miss |-> FALSE]
JudgePressedReactivates(note, t, wasReleased) ==
  IF wasReleased
    THEN IF t <= note.endSeconds - EARLY_RELEASE_TOLERANCE_SECONDS
           THEN [state |-> "MISSED", miss |-> TRUE]
           ELSE [state |-> "ACTIVE", miss |-> FALSE]
    ELSE [state |-> "PRESSED", miss |-> FALSE]
\* "Update note state", bottom note PRESSED.
JudgePressed(note, t, wasReleased) ==
  IF wasReleased /\ t <= note.endSeconds - EARLY_RELEASE_TOLERANCE_SECONDS
    THEN [state |-> "MISSED", miss |-> TRUE]
    ELSE [state |-> "PRESSED", miss |-> FALSE]

\* "Update note state": the new state of the bottom note and whether a miss
\* is registered for it.
JudgeNote(note, t, wasPressed, wasReleased) ==
  IF note.state # "MISSED"
    THEN IF note.state = "ACTIVE"
           THEN JudgeActive(note, t, wasPressed)
           ELSE IF note.state = "PRESSED"
                  THEN JudgePressed(note, t, wasReleased)
                  ELSE [state |-> note.state, miss |-> FALSE]
    ELSE [state |-> note.state, miss |-> FALSE]

BigComboLossStrict(comboCountBeforeNote) == comboCountBeforeNote > BIG_COMBO_LOSS_THRESHOLD
\* RegisterMissOnLane's return value, from the combo count before the miss.
BigComboLoss(comboCountBeforeNote) == comboCountBeforeNote >= BIG_COMBO_LOSS_THRESHOLD

MissRegisteredOnlyOnInput(verdict, wasPressed, wasReleased) ==
  verdict.miss /\ (wasPressed \/ wasReleased)
\* Whether the lane loop calls RegisterMissOnLane for the judged note.
MissRegistered(verdict, wasPressed, wasReleased) == verdict.miss

\* RegisterMissOnLane(lane) for the miss caused by note `id`.
RegisterMissOnLane(lane, id) ==
  /\ score' = RegisterMiss(score)
  /\ IF lane \in Lanes
       THEN /\ latestLaneMistakes' = [latestLaneMistakes EXCEPT ![lane] = timeSinceStepStart]
            /\ UNCHANGED outOfRangeWrite
       ELSE /\ outOfRangeWrite' = TRUE
            /\ UNCHANGED latestLaneMistakes
  /\ isBigComboLoss' = (isBigComboLoss \/ BigComboLoss(score.comboCount))
  /\ registrations' = [registrations EXCEPT ![id] = @ + 1]

\* Start of PlayLevelUpdate / UpdateGameData: activate the notes.
ActivateNotes ==
  /\ pc = "activate"
  /\ InvokeUpdate
  /\ currentLevel' = ActivateNotesForTime(currentLevel, timeSinceStepStart)
  /\ laneIndex' = 0
  /\ isBigComboLoss' = FALSE
  /\ comboBreakPlays' = 0
  /\ pc' = "judge"
  /\ UNCHANGED << nextStep, curStep, firstUpdate, shouldStop, timeSinceStepStart, input,
                  selectedLevelIndex, score, latestLaneMistakes, playedIndex,
                  outOfRangeWrite, exitCode, registrations, evictedCount, initCalls, initFailed >>
  /\ UNCHANGED schedVars

\* One iteration of the lane loop.
JudgeLane ==
  /\ pc = "judge"
  /\ LET i == laneIndex
         laneNotes == currentLevel.active[i]
     IN  /\ IF Len(laneNotes) = 0
              THEN UNCHANGED << currentLevel, score, latestLaneMistakes, isBigComboLoss,
                                outOfRangeWrite, registrations >>
              ELSE LET b == BottomNoteIndex(laneNotes, timeSinceStepStart)
                       verdict == JudgeNote(laneNotes[b], timeSinceStepStart,
                                            WasKeyPressed(LANE_KEYS[i]),
                                            WasKeyReleased(LANE_KEYS[i]))
                   IN  /\ currentLevel' =
                            [currentLevel EXCEPT !.active[i][b].state = verdict.state]
                       /\ IF MissRegistered(verdict, WasKeyPressed(LANE_KEYS[i]),
                                             WasKeyReleased(LANE_KEYS[i]))
                            THEN RegisterMissOnLane(i, laneNotes[b].id)
                            ELSE UNCHANGED << score, latestLaneMistakes, isBigComboLoss,
                                              outOfRangeWrite, registrations >>
         /\ laneIndex' = i + 1
         /\ pc' = IF i + 1 < GAME_LANE_COUNT THEN "judge" ELSE "remove"
  /\ UNCHANGED << nextStep, curStep, firstUpdate, shouldStop, timeSinceStepStart, input,
                  selectedLevelIndex, playedIndex, exitCode, evictedCount,
                  initCalls, updateCalls, initFailed, lastUpdateClock, comboBreakPlays >>
  /\ UNCHANGED schedVars

\* currentLevel.RemoveNotesForTime after the lane loop.
RemoveNotes ==
  /\ pc = "remove"
  /\ currentLevel' = RemoveNotesForTime(currentLevel, timeSinceStepStart,
                                        LATE_PRESS_TOLERANCE_SECONDS)
  /\ evictedCount' = evictedCount + (Len(currentLevel'.played) - Len(currentLevel.played))
  /\ playedIndex' = 0
  /\ pc' = "score"
  /\ UNCHANGED << nextStep, curStep, firstUpdate, shouldStop, timeSinceStepStart, input,
                  selectedLevelIndex, score, latestLaneMistakes, laneIndex,
                  isBigComboLoss, outOfRangeWrite, exitCode, registrations, initCalls,
                  updateCalls, initFailed, lastUpdateClock, comboBreakPlays >>
  /\ UNCHANGED schedVars

ScoreVerdictHitSkipped(note) ==
  IF note.state # "PRESSED" /\ note.state # "MISSED" THEN "MISS" ELSE "NONE"
ScoreVerdictAlsoMissed(note) ==
  IF note.state = "PRESSED" THEN "HIT" ELSE "MISS"
\* What the scoring loop does with a played note.
ScoreVerdict(note) ==
  IF note.state = "PRESSED" THEN "HIT"
  ELSE IF note.state # "MISSED" THEN "MISS"
  ELSE "NONE"

HitValueOfEnd(note) == note.endSeconds * 10
\* Value passed to RegisterHit.
HitValue(note) == (note.endSeconds - note.startSeconds) * 10

\* One iteration of the scoring loop over the played batch.
ScoreNote ==
  /\ pc = "score"
  /\ playedIndex < Len(currentLevel.played)
  /\ LET i == playedIndex
         note == currentLevel.played[i + 1]
     IN  /\ CASE ScoreVerdict(note) = "HIT" ->
                   /\ score' = RegisterHit(score, HitValue(note))
                   /\ registrations' = [registrations EXCEPT ![note.id] = @ + 1]
                   /\ UNCHANGED << latestLaneMistakes, isBigComboLoss, outOfRangeWrite >>
              [] ScoreVerdict(note) = "MISS" -> RegisterMissOnLane(i, note.id)
              [] OTHER -> UNCHANGED << score, latestLaneMistakes, isBigComboLoss,
                                       outOfRangeWrite, registrations >>
         /\ playedIndex' = i + 1
  /\ pc' = "score"
  /\ UNCHANGED << nextStep, curStep, firstUpdate, shouldStop, timeSinceStepStart, input,
                  selectedLevelIndex, currentLevel, laneIndex, exitCode,
                  evictedCount, initCalls, updateCalls, initFailed, lastUpdateClock,
                  comboBreakPlays >>
  /\ UNCHANGED schedVars

SongOverInclusive(t, len) == t >= len
\* PlayLevelUpdate's stop test.
SongOver(t, len) == ~(t <= len)

\* End of the scoring loop: clear the played batch, play the combo-break
\* sound, draw the view, decide whether the step stops.
FinishFrame ==
  /\ pc = "score"
  /\ playedIndex >= Len(currentLevel.played)
  /\ currentLevel' = ClearPlayedNotes(currentLevel)
  /\ comboBreakPlays' = (IF isBigComboLoss THEN 1 ELSE 0)
  /\ \E playComboBreak \in BOOLEAN :
        IF isBigComboLoss /\ ~playComboBreak
          THEN /\ nextStep' = "QUIT_ERROR"
               /\ AfterUpdate(TRUE, 0)
          ELSE IF SongOver(timeSinceStepStart, currentLevel.lengthSeconds)
                 THEN /\ nextStep' = "LEVEL_RESULTS"
                      /\ AfterUpdate(TRUE, 0)
                 ELSE /\ nextStep' = nextStep
                      /\ AfterUpdate(FALSE, 0)
  /\ UNCHANGED << selectedLevelIndex, score, latestLaneMistakes, laneIndex,
                  playedIndex, isBigComboLoss, outOfRangeWrite, registrations,
                  evictedCount, updateCalls, lastUpdateClock >>

(* --------------------------- specification ---------------------------- *)
Next ==
  \/ Dispatch
  \/ Return
  \/ SelectLevelInit
  \/ PlayLevelInit
  \/ LevelResultsInit
  \/ LoopExit
  \/ Poll
  \/ Sleep
  \/ SelectLevelUpdate
  \/ LevelResultsUpdate
  \/ ActivateNotes
  \/ JudgeLane
  \/ RemoveNotes
  \/ ScoreNote
  \/ FinishFrame

Spec == Init /\ [][Next]_vars


(* ------------------------ notions for the claims ---------------------- *)
InPlay == curStep = "LEVEL_PLAY"
\* The play step is between two frames.
BetweenFrames == InPlay /\ pc \in {"loop", "sleep"}
t == timeSinceStepStart

\* The notes of the active queues and of the played batch.
QueuedNotes == UNION {{currentLevel.active[l][k] : k \in 1 .. Len(currentLevel.active[l])} : l \in Lanes}
PlayedNotes == {currentLevel.played[k] : k \in 1 .. Len(currentLevel.played)}
LiveNotes == QueuedNotes \cup PlayedNotes

\* State of note id while it is in an active queue or in the played batch.
NoteState(id) ==
  IF \E n \in LiveNotes : n.id = id
    THEN (CHOOSE n \in LiveNotes : n.id = id).state
    ELSE "NONE"

\* The notes of the level being played.
LevelNoteIds ==
  UNION {{LevelFiles[selectedLevelIndex + 1].notes[l][k].id :
            k \in 1 .. Len(LevelFiles[selectedLevelIndex + 1].notes[l])} : l \in Lanes}

\* The lane loop is about to judge a lane with a non-empty active queue.
Judging == pc = "judge" /\ Len(currentLevel.active[laneIndex]) > 0
\* Index of the bottom note of that lane, and the note before and after the step.
CandIndex == BottomNoteIndex(currentLevel.active[laneIndex], t)
Cand == currentLevel.active[laneIndex][CandIndex]
CandAfter == currentLevel'.active[laneIndex][CandIndex]
PressEdge == WasKeyPressed(LANE_KEYS[laneIndex])
ReleaseEdge == WasKeyReleased(LANE_KEYS[laneIndex])

(* ------------------------------- claims ------------------------------- *)
\* C1: every note's state only ever moves along ACTIVE -> PRESSED -> MISSED
\* or ACTIVE -> MISSED: no step takes a note from PRESSED or MISSED back to
\* ACTIVE, from MISSED to PRESSED, or changes a MISSED note; a note enters
\* the active queue as ACTIVE.
C1_MonotonicNoteStates ==
  [][\A id \in NoteIds :
       LET before == NoteState(id)
           after == NoteState(id)'
       IN  \/ after = before
           \/ after = "NONE"
           \/ before = "NONE" /\ after = "ACTIVE"
           \/ before = "ACTIVE" /\ after \in {"PRESSED", "MISSED"}
           \/ before = "PRESSED" /\ after = "MISSED"]_vars

\* A note pressed inside its window and then released early: it went
\* ACTIVE -> PRESSED -> MISSED (a timeout needs t > start + late tolerance).
C1_Witness ==
  /\ InPlay /\ pc = "remove"
  /\ \E n \in QueuedNotes :
        /\ n.state = "MISSED"
        /\ t >= n.startSeconds - EARLY_PRESS_TOLERANCE_SECONDS
        /\ t <= n.startSeconds + LATE_PRESS_TOLERANCE_SECONDS
        /\ WasKeyReleased(LANE_KEYS[0]) /\ ~WasKeyPressed(LANE_KEYS[0])
        /\ n \in {currentLevel.active[0][k] : k \in 1 .. Len(currentLevel.active[0])}

\* C2 (as claimed): when the play step has ended because the song length was
\* exceeded, every note of the level has caused exactly one registration.
C2_EveryNoteScoredOnce ==
  (InPlay /\ pc = "main" /\ nextStep = "LEVEL_RESULTS")
    => \A id \in LevelNoteIds : registrations[id] = 1

\* C3 (as claimed): after every frame of a play session playedNotesCount is
\* the number of notes evicted into the played batch so far.
C3_PlayedCountIsEvictedCount ==
  BetweenFrames => score.playedNotesCount = evictedCount

\* C3 (amended): after every frame of a play session playedNotesCount is the
\* number of notes evicted so far plus the number of MISSED notes still in
\* the active queues (a miss is counted when it is judged, a hit on eviction).
C3_PlayedCountIsEvictedPlusQueuedMisses ==
  BetweenFrames =>
    score.playedNotesCount =
      evictedCount + Cardinality({n \in QueuedNotes : n.state = "MISSED"})

\* A frame has ended with a missed note still queued and a note evicted.
C3_Witness ==
  /\ BetweenFrames
  /\ evictedCount >= 1
  /\ \E n \in QueuedNotes : n.state = "MISSED"

\* C4: at any point of a session no note has caused more than one
\* registration (RegisterHit plus RegisterMiss calls), so a miss registered
\* in judgment is not registered again on eviction, and a hit is never
\* followed by a miss for the same note.
C4_NoDoubleCount == \A id \in NoteIds : registrations[id] <= 1

\* The scoring loop has passed a played note that was missed in judgment.
C4_Witness ==
  /\ InPlay /\ pc = "score"
  /\ \E k \in 1 .. Len(currentLevel.played) :
        /\ k <= playedIndex
        /\ currentLevel.played[k].state = "MISSED"
        /\ registrations[currentLevel.played[k].id] = 1


\* The scoring loop is about to score a played note.
Scoring == pc = "score" /\ playedIndex < Len(currentLevel.played)
ScoredNote == currentLevel.played[playedIndex + 1]

\* C5: a bottom note that is ACTIVE at t > start + late tolerance becomes
\* MISSED in that frame, with or without a press edge, causes exactly one
\* miss registration (missedNotesCount and playedNotesCount + 1) and
\* comboCount becomes 0; at t = start + late tolerance without a press edge
\* it stays ACTIVE and nothing is registered.
C5_TimeoutMiss ==
  [][(Judging /\ Cand.state = "ACTIVE") =>
       /\ t > Cand.startSeconds + LATE_PRESS_TOLERANCE_SECONDS =>
            /\ CandAfter.state = "MISSED"
            /\ registrations[Cand.id] = 0 /\ registrations'[Cand.id] = 1
            /\ score'.missedNotesCount = score.missedNotesCount + 1
            /\ score'.playedNotesCount = score.playedNotesCount + 1
            /\ score'.comboCount = 0
       /\ (t = Cand.startSeconds + LATE_PRESS_TOLERANCE_SECONDS /\ ~PressEdge) =>
            /\ CandAfter.state = "ACTIVE"
            /\ score' = score /\ registrations' = registrations]_vars

\* A note has just timed out in a frame that carries a press edge for its lane
\* while the combo count was not 0.
C5_Witness ==
  /\ InPlay /\ pc = "judge" /\ laneIndex = 1
  /\ WasKeyPressed(LANE_KEYS[0])
  /\ \E k \in 1 .. Len(currentLevel.active[0]) :
        LET n == currentLevel.active[0][k]
        IN  /\ n.state = "MISSED"
            /\ t > n.startSeconds + LATE_PRESS_TOLERANCE_SECONDS
            /\ registrations[n.id] = 1
            /\ k = BottomNoteIndex(currentLevel.active[0], t)
  /\ score.comboCount = 0 /\ score.maxComboCount > 0

\* C6: a press edge on an ACTIVE bottom note with
\* start - early tolerance <= t <= start + late tolerance makes it PRESSED
\* and changes no score counter; when a PRESSED note is scored from the
\* played batch exactly one hit of value (end - start) * 10 is registered:
\* score grows by that value, comboCount by 1, and it is that note's only
\* registration.
C6_SuccessfulPress ==
  [][/\ (/\ Judging /\ Cand.state = "ACTIVE" /\ PressEdge
         /\ t >= Cand.startSeconds - EARLY_PRESS_TOLERANCE_SECONDS
         /\ t <= Cand.startSeconds + LATE_PRESS_TOLERANCE_SECONDS) =>
          /\ CandAfter.state = "PRESSED"
          /\ score' = score /\ registrations' = registrations
     /\ (Scoring /\ ScoredNote.state = "PRESSED") =>
          /\ score'.score =
               score.score + (ScoredNote.endSeconds - ScoredNote.startSeconds) * 10
          /\ score'.comboCount = score.comboCount + 1
          /\ score'.missedNotesCount = score.missedNotesCount
          /\ registrations[ScoredNote.id] = 0 /\ registrations'[ScoredNote.id] = 1]_vars

\* The long note, pressed inside its window, has been evicted while PRESSED
\* and scored as a hit worth (6 - 2) * 10.
C6_Witness ==
  /\ InPlay /\ pc = "score" /\ playedIndex >= 1
  /\ currentLevel.played[1].state = "PRESSED"
  /\ currentLevel.played[1].endSeconds - currentLevel.played[1].startSeconds = 4
  /\ score.score = 40 /\ score.comboCount = 1
  /\ registrations[currentLevel.played[1].id] = 1

\* C7: a PRESSED bottom note becomes MISSED in a frame, with exactly one miss
\* registered, if and only if the frame carries a release edge and
\* t <= end - release tolerance; otherwise it stays PRESSED with nothing
\* registered, and a note evicted while PRESSED is scored as a hit.
C7_EarlyRelease ==
  [][/\ (Judging /\ Cand.state = "PRESSED") =>
          /\ CandAfter.state = "MISSED" <=>
               (ReleaseEdge /\ t <= Cand.endSeconds - EARLY_RELEASE_TOLERANCE_SECONDS)
          /\ CandAfter.state = "MISSED" =>
               /\ registrations[Cand.id] = 0 /\ registrations'[Cand.id] = 1
               /\ score'.missedNotesCount = score.missedNotesCount + 1
          /\ CandAfter.state # "MISSED" =>
               /\ CandAfter.state = "PRESSED"
               /\ score' = score /\ registrations' = registrations
     /\ (Scoring /\ ScoredNote.state = "PRESSED") =>
          /\ score'.comboCount = score.comboCount + 1
          /\ score'.missedNotesCount = score.missedNotesCount
          /\ score'.playedNotesCount = score.playedNotesCount + 1]_vars

\* A held note released exactly at end - release tolerance has just become
\* MISSED.
C7_Witness ==
  /\ InPlay /\ pc = "remove"
  /\ WasKeyReleased(LANE_KEYS[0])
  /\ \E n \in QueuedNotes :
        /\ n.state = "MISSED"
        /\ t = n.endSeconds - EARLY_RELEASE_TOLERANCE_SECONDS
        /\ t <= n.startSeconds + LATE_PRESS_TOLERANCE_SECONDS
        /\ registrations[n.id] = 1
        /\ score.missedNotesCount = 1

\* A held note whose release edge came after end - release tolerance is being
\* scored as a hit.
C7_WitnessLate ==
  /\ InPlay /\ Scoring /\ ScoredNote.state = "PRESSED"
  /\ WasKeyReleased(LANE_KEYS[0])
  /\ ScoredNote.endSeconds - ScoredNote.startSeconds = 4


\* The update function of the running step is about to be invoked.
AtUpdate == pc \in {"update", "activate"}
\* The loop is about to poll the keys and read the timer.
AtClockCheck == pc = "loop" /\ ~shouldStop

\* C8 (as claimed): two consecutive updates are at least 1/r apart, a clock
\* check that sees at least 1/r elapsed since the last update triggers an
\* update, and no update is preceded by two or more whole intervals of 1/r
\* without an update (no frame is dropped).
C8_FramePacingAsClaimed ==
  [][/\ (AtUpdate /\ ~firstUpdate) => clock - lastUpdateClock >= delayBetweenFrames
     /\ (AtClockCheck /\ clock - previousUpdateTime >= delayBetweenFrames) => AtUpdate'
     /\ (AtClockCheck /\ AtUpdate') => clock - lastUpdateClock < 2 * delayBetweenFrames]_vars

\* C8 (amended): two consecutive updates are more than 1/r apart; a clock
\* check triggers an update, and only one, exactly when it sees strictly more
\* than 1/r elapsed since the last update, which restarts the interval at the
\* time of that check, so time overslept is not made up by extra updates.
C8_FramePacing ==
  [][/\ (AtUpdate /\ ~firstUpdate) => clock - lastUpdateClock > delayBetweenFrames
     /\ AtClockCheck =>
          /\ AtUpdate' <=> clock - previousUpdateTime > delayBetweenFrames
          /\ AtUpdate' => timeSinceStepStart' = clock - startTime
          /\ ~AtUpdate' => pc' = "sleep" /\ updateCalls' = updateCalls
     /\ (pc \in {"update", "score"} /\ ~firstUpdate /\ pc' = "sleep") =>
          previousUpdateTime' = clock]_vars

\* An update is invoked three intervals after the previous one: the loop
\* overslept, and invokes one update for them.
C8_Witness ==
  /\ AtUpdate /\ ~firstUpdate
  /\ updateCalls >= 2
  /\ clock - lastUpdateClock >= 3 * delayBetweenFrames

\* C9 (as claimed): once nextStep is QUIT_ERROR it is never overwritten, the
\* step that set it stops at that frame, and the main loop returns
\* EXIT_FAILURE.
C9_FailureEndsSession ==
  /\ [][nextStep = "QUIT_ERROR" => nextStep' = "QUIT_ERROR"]_vars
  /\ []((nextStep = "QUIT_ERROR" /\ pc \in {"loop", "sleep"}) => shouldStop)
  /\ []((nextStep = "QUIT_ERROR" /\ pc = "done") => exitCode = "EXIT_FAILURE")

\* C10: PlayGameStep calls the step's init function exactly once; when it
\* returned failure the update function is never invoked for that step,
\* nextStep is QUIT_ERROR on return, and the main loop then returns
\* EXIT_FAILURE without running another step.
C10_InitFailureAbortsStep ==
  /\ [](initCalls = (IF pc = "init" \/ curStep = "NONE" THEN 0 ELSE 1))
  /\ [](initFailed =>
          /\ updateCalls = 0
          /\ nextStep = "QUIT_ERROR"
          /\ pc \in {"main", "done"}
          /\ pc = "done" => exitCode = "EXIT_FAILURE")
  /\ [][(initFailed /\ pc = "main") => pc' = "done"]_vars

\* The high-score save failed in LevelResultsInit, which leaves nextStep to
\* its caller, and the main loop has returned.
C10_Witness ==
  /\ initFailed /\ curStep = "LEVEL_RESULTS"
  /\ pc = "done" /\ exitCode = "EXIT_FAILURE"
  /\ initCalls = 1 /\ updateCalls = 0

\* A step ends a call of the step's update function.
UpdateReturns == pc \in {"update", "score"} /\ pc' \in {"loop", "sleep"}
\* Every edge held before is held after.
EdgesKept ==
  /\ input.pressed \subseteq input'.pressed
  /\ input.released \subseteq input'.released

\* C11: every edge recorded by a poll stays visible until the next call of
\* the update function returns and is gone when it has returned, so it is
\* visible to exactly that one call: a step of the program either keeps every
\* edge or is the return of an update and leaves none; the unconditional
\* first update of a step, which is followed by no reset, sees no edge, so
\* nothing it saw is seen again by the second one.
C11_EdgeSeenByOneUpdate ==
  /\ [][IF UpdateReturns THEN input' = NoEdges ELSE EdgesKept]_vars
  /\ []((firstUpdate /\ pc \in {"update", "activate", "judge", "remove", "score"})
          => input = NoEdges)

\* The second or a later frame of the play step judges lane 0 with a press
\* and a release edge: two polls recorded them, so one of them was recorded
\* by a poll that triggered no frame.
C11_Witness ==
  /\ InPlay /\ pc = "judge" /\ laneIndex = 0 /\ updateCalls >= 2
  /\ WasKeyPressed(LANE_KEYS[0]) /\ WasKeyReleased(LANE_KEYS[0])
  /\ Len(currentLevel.active[0]) > 0

\* score.Reset() of a successful PlayLevelInit starts a session.
SessionReset == pc = "init" /\ InPlay /\ pc' = "activate"
\* The scoring loop scores a hit; a step registers a miss.
HitScored == Scoring /\ ScoredNote.state = "PRESSED"
MissScored == (\E id \in NoteIds : registrations'[id] = registrations[id] + 1) /\ ~HitScored

\* C12: within a session comboCount becomes 0 on every registered miss, grows
\* by exactly 1 on every hit and changes at no other step, and maxComboCount
\* is the largest value comboCount has taken since the session's Reset: both
\* are 0 after the Reset and every later step leaves maxComboCount at the
\* larger of its old value and the new comboCount.
C12_ComboTracking ==
  [][/\ HitScored => score'.comboCount = score.comboCount + 1
     /\ MissScored => score'.comboCount = 0
     /\ IF SessionReset
          THEN score'.comboCount = 0 /\ score'.maxComboCount = 0
          ELSE /\ score'.maxComboCount = Max(score.maxComboCount, score'.comboCount)
               /\ ~(HitScored \/ MissScored) => score'.comboCount = score.comboCount]_vars

\* Two hits took the combo to 2, then a miss reset it: comboCount is 0 and
\* maxComboCount is still 2.
C12_Witness ==
  /\ InPlay
  /\ score.comboCount = 0 /\ score.maxComboCount = 2
  /\ score.missedNotesCount = 1 /\ score.playedNotesCount = 3

\* The lane being judged, and whether its k-th note can still be judged: it
\* is ACTIVE, or judged and not past its window.
JudgedLane == currentLevel.active[laneIndex]
Judgeable(k) == JudgedLane[k].state = "ACTIVE" \/ ~PastWindow(JudgedLane[k], t)
AnyJudgeable == \E k \in 1 .. Len(JudgedLane) : Judgeable(k)
FirstJudgeable ==
  CHOOSE k \in 1 .. Len(JudgedLane) : Judgeable(k) /\ \A j \in 1 .. (k - 1) : ~Judgeable(j)

\* C13: when a lane with a non-empty queue is judged, the bottom note is the
\* first note in queue order that is ACTIVE or judged and not past its
\* window, and the last note of the queue when there is none; only that note
\* may change state, and it does not when it is judged and past its window;
\* the queues of the other lanes are untouched, each lane is judged once per
\* frame, and no step outside the lane loop changes the state of a note.
C13_CandidateSelection ==
  [][/\ Judging =>
          /\ CandIndex = (IF AnyJudgeable THEN FirstJudgeable ELSE Len(JudgedLane))
          /\ Len(currentLevel'.active[laneIndex]) = Len(JudgedLane)
          /\ \A k \in 1 .. Len(JudgedLane) :
                (k # CandIndex \/ ~AnyJudgeable) => currentLevel'.active[laneIndex][k] = JudgedLane[k]
          /\ \A l \in Lanes \ {laneIndex} : currentLevel'.active[l] = currentLevel.active[l]
     /\ pc = "judge" => laneIndex' = laneIndex + 1
     /\ pc' = "judge" => (pc = "activate" /\ laneIndex' = 0) \/ pc = "judge"
     /\ pc # "judge" =>
          \A id \in NoteIds : NoteState(id)' \in {NoteState(id), "NONE"} \/ NoteState(id) = "NONE"]_vars

\* Lane 0 is judged with a release edge while every note of its queue is
\* judged and past its window and the last one is PRESSED.
C13_Witness ==
  /\ InPlay /\ Judging /\ laneIndex = 0
  /\ ~AnyJudgeable
  /\ Cand.state = "PRESSED" /\ ReleaseEdge

\* Lane 0 is judged with a press edge while its first note is judged and past
\* its window and the note behind it is ACTIVE.
C13_WitnessSkip ==
  /\ InPlay /\ Judging /\ laneIndex = 0
  /\ Len(JudgedLane) = 2 /\ ~Judgeable(1) /\ JudgedLane[2].state = "ACTIVE"
  /\ PressEdge

\* C14: a press edge on an ACTIVE bottom note at t < start - early tolerance
\* with t + max miss distance >= start - early tolerance (equality included)
\* makes it MISSED and registers exactly one miss; a press edge at
\* t = start - early tolerance makes it PRESSED and registers nothing.
C14_NearMiss ==
  [][(Judging /\ Cand.state = "ACTIVE" /\ PressEdge) =>
       /\ (/\ t < Cand.startSeconds - EARLY_PRESS_TOLERANCE_SECONDS
           /\ t + MAX_MISS_TIME_DISTANCE_SECONDS
                >= Cand.startSeconds - EARLY_PRESS_TOLERANCE_SECONDS) =>
            /\ CandAfter.state = "MISSED"
            /\ registrations[Cand.id] = 0 /\ registrations'[Cand.id] = 1
            /\ \A id \in NoteIds \ {Cand.id} : registrations'[id] = registrations[id]
            /\ score'.missedNotesCount = score.missedNotesCount + 1
            /\ score'.playedNotesCount = score.playedNotesCount + 1
            /\ score'.comboCount = 0
       /\ t = Cand.startSeconds - EARLY_PRESS_TOLERANCE_SECONDS =>
            /\ CandAfter.state = "PRESSED"
            /\ score' = score /\ registrations' = registrations]_vars

\* A press edge at exactly start - early tolerance - max miss distance has
\* just made the bottom note of lane 1 MISSED, with its one miss registered.
C14_Witness ==
  /\ InPlay /\ pc = "remove"
  /\ WasKeyPressed(LANE_KEYS[1])
  /\ Len(currentLevel.active[1]) > 0
  /\ LET n == currentLevel.active[1][BottomNoteIndex(currentLevel.active[1], t)]
     IN  /\ n.state = "MISSED"
         /\ t + MAX_MISS_TIME_DISTANCE_SECONDS = n.startSeconds - EARLY_PRESS_TOLERANCE_SECONDS
         /\ registrations[n.id] = 1
  /\ score.missedNotesCount = 1

\* A press edge at exactly start - early tolerance has just made the bottom
\* note of lane 1 PRESSED.
C14_WitnessPress ==
  /\ InPlay /\ pc = "remove"
  /\ WasKeyPressed(LANE_KEYS[1])
  /\ \E k \in 1 .. Len(currentLevel.active[1]) :
        /\ currentLevel.active[1][k].state = "PRESSED"
        /\ t = currentLevel.active[1][k].startSeconds - EARLY_PRESS_TOLERANCE_SECONDS

\* The judgment of the lane changes no note of the lane and no counter.
JudgmentUntouched ==
  /\ currentLevel'.active[laneIndex] = currentLevel.active[laneIndex]
  /\ score' = score
  /\ registrations' = registrations
  /\ latestLaneMistakes' = latestLaneMistakes
  /\ isBigComboLoss' = isBigComboLoss

\* C15: whatever edges its key carries, judging a lane changes no note state
\* of the lane and no score counter when the active queue is empty, or the
\* bottom note is MISSED, or PRESSED with t > end - release tolerance, or
\* ACTIVE with t + max miss distance < start - early tolerance; nor does it
\* when the bottom note is PRESSED and there is no release edge (a press edge
\* does nothing to it), or ACTIVE and not timed out and there is no press
\* edge (a release edge does nothing to it).
C15_NoJudgeableCandidate ==
  [][/\ (pc = "judge" /\ Len(currentLevel.active[laneIndex]) = 0) => JudgmentUntouched
     /\ Judging =>
          /\ Cand.state = "MISSED" => JudgmentUntouched
          /\ (Cand.state = "PRESSED" /\ t > Cand.endSeconds - EARLY_RELEASE_TOLERANCE_SECONDS)
               => JudgmentUntouched
          /\ (/\ Cand.state = "ACTIVE"
              /\ t + MAX_MISS_TIME_DISTANCE_SECONDS
                   < Cand.startSeconds - EARLY_PRESS_TOLERANCE_SECONDS) => JudgmentUntouched
          /\ (Cand.state = "PRESSED" /\ ~ReleaseEdge) => JudgmentUntouched
          /\ (/\ Cand.state = "ACTIVE" /\ ~PressEdge
              /\ t <= Cand.startSeconds + LATE_PRESS_TOLERANCE_SECONDS) => JudgmentUntouched]_vars

\* Lane 1 has just been judged with a press edge that came too early for its
\* bottom note even to count as a miss: the note is still ACTIVE and nothing
\* has been registered.
C15_Witness ==
  /\ InPlay /\ pc = "remove"
  /\ WasKeyPressed(LANE_KEYS[1])
  /\ Len(currentLevel.active[1]) = 1
  /\ currentLevel.active[1][1].state = "ACTIVE"
  /\ t + MAX_MISS_TIME_DISTANCE_SECONDS
       < currentLevel.active[1][1].startSeconds - EARLY_PRESS_TOLERANCE_SECONDS
  /\ score = ZeroScore /\ registrations = [n \in NoteIds |-> 0]

\* Reached cases of the others: an empty lane, a MISSED bottom note and a
\* PRESSED one past its window judged with an edge; a PRESSED bottom note
\* judged with only a press edge; an ACTIVE one with only a release edge.
C15_WitnessEmpty ==
  InPlay /\ pc = "judge" /\ Len(currentLevel.active[laneIndex]) = 0 /\ (PressEdge \/ ReleaseEdge)
C15_WitnessMissed ==
  InPlay /\ Judging /\ Cand.state = "MISSED" /\ PressEdge
C15_WitnessPressedLate ==
  /\ InPlay /\ Judging /\ Cand.state = "PRESSED" /\ ReleaseEdge
  /\ t > Cand.endSeconds - EARLY_RELEASE_TOLERANCE_SECONDS
C15_WitnessPressedPress ==
  InPlay /\ Judging /\ Cand.state = "PRESSED" /\ PressEdge /\ ~ReleaseEdge
C15_WitnessActiveRelease ==
  /\ InPlay /\ Judging /\ Cand.state = "ACTIVE" /\ ReleaseEdge /\ ~PressEdge
  /\ t <= Cand.startSeconds + LATE_PRESS_TOLERANCE_SECONDS

\* The init function of the running step returns success.
InitSucceeds == pc = "init" /\ pc' # "main"

\* C16: after a successful init the update function is entered at once, for
\* the first time in the step, with timeSinceStepStart = 0 and before the
\* timer is read; timeSinceStepStart changes only when the loop invokes an
\* update, and then to a strictly greater value; once an update has returned
\* stop no update is invoked any more and PlayGameStep can only return.
C16_FirstUpdateAndStop ==
  [][/\ InitSucceeds =>
          /\ AtUpdate' /\ firstUpdate'
          /\ timeSinceStepStart' = 0
          /\ updateCalls' = 0
          /\ UNCHANGED schedVars
     /\ (AtUpdate /\ firstUpdate) => updateCalls' = 1
     /\ (AtClockCheck /\ AtUpdate') => timeSinceStepStart' > timeSinceStepStart
     /\ ~(InitSucceeds \/ (AtClockCheck /\ AtUpdate')) =>
          /\ timeSinceStepStart' = timeSinceStepStart
          /\ updateCalls' # updateCalls => (AtUpdate \/ pc = "main")
     /\ (shouldStop /\ pc # "main") =>
          /\ updateCalls' = updateCalls /\ ~AtUpdate'
          /\ (pc = "sleep" /\ pc' = "loop") \/ (pc = "loop" /\ pc' = "main")]_vars

\* The play step has returned after its fourth or a later update returned
\* stop at the end of the song.
C16_Witness ==
  /\ InPlay /\ pc = "main" /\ shouldStop
  /\ nextStep = "LEVEL_RESULTS"
  /\ updateCalls >= 4 /\ timeSinceStepStart > currentLevel.lengthSeconds

\* The last step of a frame of the play step: PlayLevelUpdate returns.
FrameReturns == InPlay /\ UpdateReturns
SongLength == currentLevel.lengthSeconds

\* C17: a frame of the play step in which no collaborator fails stops the
\* step with nextStep = LEVEL_RESULTS if t > song length and continues with
\* nextStep untouched if t <= song length, so the step is never between two
\* frames with t > song length and nothing else sets LEVEL_RESULTS; every
\* frame, the last one included, activates, then judges lane after lane,
\* then evicts, then scores the played batch note by note, then clears it,
\* and returns from nowhere else.
C17_StopAfterSongLength ==
  /\ [][/\ (FrameReturns /\ nextStep' # "QUIT_ERROR") =>
             IF t > SongLength
               THEN shouldStop' /\ nextStep' = "LEVEL_RESULTS"
               ELSE ~shouldStop' /\ nextStep' = nextStep
        /\ (nextStep' = "LEVEL_RESULTS" /\ nextStep # "LEVEL_RESULTS") =>
             FrameReturns /\ t > SongLength
        /\ (InPlay /\ pc = "activate") =>
             /\ pc' = "judge" /\ laneIndex' = 0
             /\ currentLevel'.played = currentLevel.played /\ score' = score
        /\ (InPlay /\ pc = "judge") =>
             /\ pc' = (IF laneIndex = GAME_LANE_COUNT - 1 THEN "remove" ELSE "judge")
             /\ currentLevel'.pending = currentLevel.pending
             /\ currentLevel'.played = currentLevel.played
        /\ (InPlay /\ pc = "remove") =>
             /\ pc' = "score" /\ playedIndex' = 0
             /\ currentLevel'.pending = currentLevel.pending /\ score' = score
        /\ (InPlay /\ pc = "score") =>
             IF playedIndex < Len(currentLevel.played)
               THEN /\ pc' = "score" /\ playedIndex' = playedIndex + 1
                    /\ currentLevel' = currentLevel
               ELSE /\ FrameReturns
                    /\ currentLevel'.played = << >>
                    /\ currentLevel'.active = currentLevel.active
                    /\ score' = score
        /\ (InPlay /\ shouldStop' # shouldStop /\ pc # "main") => FrameReturns]_vars
  /\ []((BetweenFrames /\ ~shouldStop) => t <= SongLength)

\* Level 1 was played in frames at t = 0, 2, 4, 6 and 8: the frame at
\* t = song length continued, the one at t = 8 judged a timeout on lane 0
\* and stopped the step with LEVEL_RESULTS.
C17_Witness ==
  /\ BetweenFrames /\ shouldStop /\ nextStep = "LEVEL_RESULTS"
  /\ SongLength = 6 /\ t = 8 /\ updateCalls = 5
  /\ latestLaneMistakes[0] = t

\* The steps of a frame of the play step after activation.
InFrame == InPlay /\ pc \in {"judge", "remove", "score"}

\* C18: in a frame the big-combo-loss flag starts FALSE and is raised by a
\* registered miss exactly when comboCount just before that miss is at least
\* BIG_COMBO_LOSS_THRESHOLD, and by nothing else; when the frame returns the
\* combo-break sound has been requested once if the flag is raised and not
\* at all otherwise, and it is requested nowhere else in the frame.
C18_BigComboLossSignal ==
  /\ [][/\ (InPlay /\ pc = "activate") => (~isBigComboLoss' /\ comboBreakPlays' = 0)
        /\ InFrame =>
             /\ isBigComboLoss' =
                  (isBigComboLoss \/
                     (MissScored /\ score.comboCount >= BIG_COMBO_LOSS_THRESHOLD))
             /\ comboBreakPlays' =
                  (IF FrameReturns /\ isBigComboLoss THEN 1 ELSE 0)]_vars
  /\ [](comboBreakPlays <= 1)

\* A frame has registered a miss on each lane, the first of them at a combo
\* of 2, and has requested the combo-break sound once.
C18_Witness ==
  /\ BetweenFrames
  /\ comboBreakPlays = 1
  /\ latestLaneMistakes[0] = t /\ latestLaneMistakes[1] = t
  /\ score.maxComboCount = 2 /\ score.missedNotesCount = 2

\* C19: latestLaneMistakes is never written out of range: every miss is
\* registered by the lane loop, for its loop variable, which is a lane, and
\* writes that lane's entry only; the played batch never holds an ACTIVE
\* note, so the scoring loop, which would pass the batch index as the lane,
\* never registers a miss.
C19_LaneIndexInRange ==
  /\ [](~outOfRangeWrite)
  /\ [](\A n \in PlayedNotes : n.state \in {"PRESSED", "MISSED"})
  /\ [][MissScored =>
          /\ pc = "judge" /\ laneIndex \in Lanes
          /\ latestLaneMistakes'[laneIndex] = t
          /\ \A l \in Lanes \ {laneIndex} : latestLaneMistakes'[l] = latestLaneMistakes[l]]_vars

\* The scoring loop has gone through a played batch of three notes whose
\* third note, at batch index 2, was missed in judgment.
C19_Witness ==
  /\ InPlay /\ pc = "score"
  /\ Len(currentLevel.played) = 3 /\ playedIndex = 3
  /\ currentLevel.played[3].state = "MISSED"
  /\ registrations[currentLevel.played[3].id] = 1
  /\ ~outOfRangeWrite

\* The step transitions StartMainLoop may see: the step that returned and
\* the value it left in nextStep.
StepTransitions ==
  { <<"LEVEL_SELECT", "LEVEL_PLAY">>, <<"LEVEL_SELECT", "QUIT_SUCCESS">>,
    <<"LEVEL_PLAY", "LEVEL_RESULTS">>, <<"LEVEL_RESULTS", "LEVEL_SELECT">> }
    \cup (PlaySteps \X {"QUIT_ERROR"})
\* The update function of a menu step is running and sees a press of key k.
MenuUpdateSees(step, k) == curStep = step /\ pc = "update" /\ WasKeyPressed(k)

\* C20: nextStep is only ever set to LEVEL_PLAY by a confirm in LEVEL_SELECT,
\* to QUIT_SUCCESS by the exit key in LEVEL_SELECT, to LEVEL_RESULTS by a
\* frame of LEVEL_PLAY with t > song length, to LEVEL_SELECT by a confirm in
\* LEVEL_RESULTS, each of which stops the step, or to QUIT_ERROR; a step that
\* has returned leaves one of these transitions, the main loop runs the step
\* nextStep names, and LEVEL_RESULTS only right after a LEVEL_PLAY that ran
\* past the song length; EXIT_SUCCESS is returned only after LEVEL_SELECT
\* left QUIT_SUCCESS; when the constructor failed to load the level list the
\* main loop returns EXIT_FAILURE at once, no init or update ever called.
C20_StepStateMachine ==
  /\ [][nextStep' # nextStep =>
          \/ nextStep' = "QUIT_ERROR"
          \/ /\ nextStep' = "LEVEL_PLAY" /\ shouldStop'
             /\ MenuUpdateSees("LEVEL_SELECT", "MENU_CONFIRM")
          \/ /\ nextStep' = "QUIT_SUCCESS" /\ shouldStop'
             /\ MenuUpdateSees("LEVEL_SELECT", "APPLICATION_EXIT")
          \/ /\ nextStep' = "LEVEL_RESULTS" /\ shouldStop'
             /\ FrameReturns /\ t > SongLength
          \/ /\ nextStep' = "LEVEL_SELECT" /\ shouldStop'
             /\ MenuUpdateSees("LEVEL_RESULTS", "MENU_CONFIRM")]_vars
  /\ []((pc = "main" /\ curStep # "NONE") => <<curStep, nextStep>> \in StepTransitions)
  /\ [][(pc = "main" /\ pc' = "init") =>
          /\ curStep' = nextStep /\ nextStep' = nextStep
          /\ curStep = "NONE" => curStep' = "LEVEL_SELECT"
          /\ curStep' = "LEVEL_RESULTS" => (curStep = "LEVEL_PLAY" /\ t > SongLength)]_vars
  /\ [](pc = "done" =>
          /\ exitCode \in {"EXIT_SUCCESS", "EXIT_FAILURE"}
          /\ exitCode = "EXIT_SUCCESS" => (curStep = "LEVEL_SELECT" /\ nextStep = "QUIT_SUCCESS")
          /\ curStep = "NONE" => (exitCode = "EXIT_FAILURE" /\ initCalls = 0 /\ updateCalls = 0))
  /\ [][(pc = "main" /\ curStep = "NONE" /\ nextStep = "QUIT_ERROR") => pc' = "done"]_vars

\* A level was played to its end, its results were left with a confirm, and
\* the exit key in the level selection ended the main loop with EXIT_SUCCESS.
C20_Witness ==
  /\ pc = "done" /\ exitCode = "EXIT_SUCCESS"
  /\ curStep = "LEVEL_SELECT"
  /\ score.playedNotesCount > 0 /\ SongLength > 0

\* The constructor failed to load the level list and the main loop has
\* returned.
C20_WitnessNoStep ==
  pc = "done" /\ curStep = "NONE" /\ exitCode = "EXIT_FAILURE"

====
